---- MODULE Spec2Model ----
(***************************************************************************)
(* Model of tidb-metrics-crawler: the Prometheus client's retrying         *)
(* FetchRange (pkg/prometheus/client.go) and the processor's               *)
(* ProcessMetrics / processInHourlyBatches / processBatchResult            *)
(* (pkg/processor).  Instants are whole seconds, sample timestamps are     *)
(* milliseconds as in model.Time.                                          *)
(***************************************************************************)
EXTENDS Integers, Sequences, FiniteSets, TLC

\* ---------------------------------------------------------------- bounds
NumMetrics == 2      \* len(metrics)
NumSources == 2      \* len(p.clients)
MaxStartK  == 1      \* the window start is k half hours, k in 0..MaxStartK
MaxEndK    == 5      \* the window end is k half hours, k in 0..MaxEndK
MaxSeries  == 2      \* series per raw result handed to the normalizer
MaxSamples == 2      \* samples per series of a matrix
MaxWrites  == 2      \* Write calls made on one sink
MaxRecords == 2      \* records per Write call
MaxBatch   == 2      \* largest configured batch size of the table sink
MaxTicks   == 2      \* clock ticks of TimeStep seconds in one sink's life
MaxWarnings == 2     \* warnings one QueryRange call returns
MaxRequests == 2     \* requests sent through one round tripper

\* ------------------------------------------------------ program constants
Hour              == 3600   \* 1 * time.Hour, in seconds
maxRetries_6      == 5 + 1
maxRetries        == 5
InitialRetryDelay_1s == 2 - 1
InitialRetryDelay == 2      \* 2 * time.Second

Grain == Hour \div 2

NoErr == "nil"

\* the nil error of the calls whose errors wrap another error (fmt.Errorf
\* with the batch number or the retry count)
NilErr == << NoErr >>

\* ------------------------------------------------------------ run inputs
MetricNames == <<"qps", "latency", "conns", "mem">>
Queries     == <<"sum(rate(q[1m]))", "histogram_quantile(0.99, l)", "sum(c)", "sum(m)">>
LabelKeySeq == << <<"instance", "job">>, <<"instance", "zone">>,
                  <<"zone">>, <<>> >>
ClientNames == <<"prom-a", "prom-b", "prom-c", "prom-d">>

\* config.MetricConfig of the i-th configured metric
MetricConfig(i) ==
    [Name |-> MetricNames[i], Query |-> Queries[i], LabelKeys |-> LabelKeySeq[i]]

\* promClient.Name of the j-th client
ClientName(j) == ClientNames[j]

StepStrs == {"5m", "0s", "-1m", "abc"}

\* time.ParseDuration on the step strings of the model, in seconds
ParseDuration(s) ==
    CASE s = "5m"  -> [err |-> NoErr, d |-> 300]
      [] s = "0s"  -> [err |-> NoErr, d |-> 0]
      [] s = "-1m" -> [err |-> NoErr, d |-> 0 - 60]
      [] OTHER     -> [err |-> "time: invalid duration", d |-> 0]

\* --------------------------------------------------------- raw results
Nil == [type |-> "nil", vector |-> <<>>, matrix |-> <<>>]

SeriesMetric == [name |-> "up", instance |-> "a", job |-> "b"]

\* the values v1.API.QueryRange can hand back for the window [s, e]
RawResults(s, e) ==
    { [type |-> "matrix", vector |-> <<>>, matrix |-> <<>>],
      [type |-> "matrix", vector |-> <<>>,
       matrix |-> << [Metric |-> SeriesMetric,
                      Values |-> << [Timestamp |-> s * 1000 + 500, Value |-> 1],
                                    [Timestamp |-> e * 1000, Value |-> 2] >>] >>],
      [type |-> "vector", matrix |-> <<>>,
       vector |-> << [Metric |-> SeriesMetric,
                      Timestamp |-> s * 1000 + 999, Value |-> 3] >>],
      [type |-> "scalar", vector |-> <<>>, matrix |-> <<>>] }

Causes == {"connection refused", "context deadline exceeded"}

\* ------------------------------------------------------ result normalizer
extractLabels_fill(metric, keys) ==
    [k \in {keys[i] : i \in DOMAIN keys} |->
        IF k \in DOMAIN metric THEN metric[k] ELSE ""]
\* extractLabels
extractLabels(metric, keys) ==
    [k \in {keys[i] : i \in DOMAIN keys} \cap DOMAIN metric |-> metric[k]]

Unix_millis(ms) == ms
\* model.Time.Unix: milliseconds to whole seconds
Unix(ms) == ms \div 1000

ProcessedData(inst, mname, ts, val, labels) ==
    [PrometheusInstance |-> inst, MetricName |-> mname,
     Timestamp |-> Unix(ts), Value |-> val, Labels |-> labels]

RECURSIVE MatrixRecords(_, _, _, _)
MatrixRecords(inst, mname, keys, matrix) ==
    IF matrix = <<>> THEN <<>>
    ELSE LET series == Head(matrix)
             labels == extractLabels(series.Metric, keys)
         IN  [i \in 1..Len(series.Values) |->
                 ProcessedData(inst, mname, series.Values[i].Timestamp,
                               series.Values[i].Value, labels)]
             \o MatrixRecords(inst, mname, keys, Tail(matrix))

VectorRecords(inst, mname, keys, vector) ==
    [i \in 1..Len(vector) |->
        ProcessedData(inst, mname, vector[i].Timestamp, vector[i].Value,
                      extractLabels(vector[i].Metric, keys))]

processBatchResult_lenient(inst, mname, keys, res) ==
    IF res.type = "vector"
    THEN [err |-> NoErr, data |-> VectorRecords(inst, mname, keys, res.vector)]
    ELSE IF res.type = "matrix"
    THEN [err |-> NoErr, data |-> MatrixRecords(inst, mname, keys, res.matrix)]
    ELSE [err |-> NoErr, data |-> <<>>]
\* processBatchResult
processBatchResult(inst, mname, keys, res) ==
    IF res.type = "vector"
    THEN [err |-> NoErr, data |-> VectorRecords(inst, mname, keys, res.vector)]
    ELSE IF res.type = "matrix"
    THEN [err |-> NoErr, data |-> MatrixRecords(inst, mname, keys, res.matrix)]
    ELSE [err |-> "unsupported result type", data |-> <<>>]

\* ------------------------------------------------------------------ state
VARIABLES
    start, end, stepStr,        \* arguments of ProcessMetrics
    pc,                         \* position of the single goroutine
    step,                       \* parsed step
    mi, si,                     \* index of the current metric and client
    currentStart, currentEnd, batchNumber,
    attempt, retryDelay,        \* locals of FetchRange
    err,                        \* err of the last QueryRange attempt
    result, fetchErr,           \* what FetchRange returned
    processedData,              \* records of the current batch
    pairErr,                    \* what processInHourlyBatches returned
    retErr,                     \* what ProcessMetrics returned
    \* observations of the run
    callAttempts,               \* QueryRange calls made by the current FetchRange
    callFails,                  \* how many of them failed
    callSleeps,                 \* time.Sleep durations of the current FetchRange
    apiResult,                  \* result of the last QueryRange call
    apiWarnings,                \* len(warnings) of the last QueryRange call
    pairFetches,                \* FetchRange calls of the current pair
    pairBatches,                \* normalized batches of the current pair
    pairWrites,                 \* sink.Write calls of the current pair
    lastOp,                     \* the last FetchRange or Write call of the run
    pairTermErr,                \* FetchRange returned an error in this pair
    failedCount,                \* pairs whose error ProcessMetrics logged
    fetchedFirst,               \* pairs whose first sub-window was fetched
    writeErr,                   \* what the last sink.Write of the pair returned
    \* main
    closeCalls,                 \* calls of outputSink.Close
    closeErr,                   \* what the last Close returned
    exitStatus,                 \* exit status of the process, -1 while it runs
    \* a single call of processBatchResult
    nPair, nKeys, nResult,      \* its arguments
    nOut                        \* what it returned

VARIABLES
    \* the sink built by sink.NewSink and the calls made on it
    sinkType,                   \* cfg.Type
    cfgBatchSize,               \* cfg.MySQL.BatchSize
    writeCalls,                 \* Write calls made so far
    nextRec,                    \* number of the next record handed to Write
    lastCall,                   \* the last call made on the sink
    sinkRet,                    \* what it returned
    \* CSVSink
    created,                    \* the files os.Create made, in order
    files, writers,             \* metric name -> index in created
    \* MySQLSink
    batchSize, batchData,
    inserts,                    \* the INSERT statements db.Exec ran, in order
    passed,                     \* the rows of the records passed to Write
    flushFailed,                \* some flushBatch returned an error
    \* FeishuSink
    accessToken, tokenExpiry,
    now,                        \* time.Now(), in seconds
    tokenDies,                  \* instant at which the token held expires
    tokenRequests,              \* token requests sent
    csvContent,                 \* the attachment made by the last Write
    uploads, messages           \* uploads and messages sent

VARIABLES
    \* the command line and the configuration file of main
    flagStart, flagEnd, flagStep,   \* -start, -end, -step
    cfgStart, cfgEnd, cfgStep,      \* cfg.TimeRange
    \* the client's round tripper
    username, password,         \* its credentials
    reqBefore,                  \* header of the caller's request at the call
    reqHeader,                  \* header of the caller's request now
    sentHeader,                 \* header of the request handed to a.rt
    rtCalls                     \* RoundTrip calls made

inputs == <<start, end, stepStr>>
locals == <<pc, step, mi, si, currentStart, currentEnd, batchNumber, attempt,
            retryDelay, err, result, fetchErr, processedData, pairErr, retErr>>
observed == <<callAttempts, callFails, callSleeps, apiResult, apiWarnings,
              pairFetches,
              pairBatches, pairWrites, lastOp, pairTermErr, failedCount,
              fetchedFirst, writeErr>>
mainVars == <<closeCalls, closeErr, exitStatus>>
normVars == <<nPair, nKeys, nResult, nOut>>
sinkIn == <<sinkType, cfgBatchSize>>
csvVars == <<created, files, writers>>
mysqlVars == <<batchSize, batchData, inserts, passed, flushFailed>>
feishuVars == <<accessToken, tokenExpiry, now, tokenDies, tokenRequests,
                csvContent, uploads, messages>>
sinkVars == <<writeCalls, nextRec, lastCall, sinkRet, csvVars, mysqlVars,
              feishuVars>>
mainIn == <<flagStart, flagEnd, flagStep, cfgStart, cfgEnd, cfgStep>>
rtVars == <<username, password, reqBefore, reqHeader, sentHeader, rtCalls>>
auxVars == <<sinkIn, sinkVars, mainIn, rtVars>>
vars == <<inputs, locals, observed, mainVars, normVars, auxVars>>

AllPairs == (1..NumMetrics) \X (1..NumSources)
NoOp == [kind |-> "none", mi |-> 0, si |-> 0, start |-> 0]

NoOut == [err |-> "not called", data |-> <<>>]

NoCall == [op |-> "none", metricName |-> "", data |-> <<>>]

\* an http.Header of the model: its Authorization and its Accept entry
NoAuth == [scheme |-> "", user |-> "", pass |-> ""]
NoHeader == [Authorization |-> NoAuth, Accept |-> ""]

\* main's inputs are not under test: no flag, no configuration text
MainIdle ==
    /\ flagStart = "" /\ flagEnd = "" /\ flagStep = ""
    /\ cfgStart = "" /\ cfgEnd = "" /\ cfgStep = ""

\* no round tripper is under test
RTIdle ==
    /\ username = "" /\ password = ""
    /\ reqBefore = NoHeader /\ reqHeader = NoHeader /\ sentHeader = NoHeader
    /\ rtCalls = 0

\* no sink is under test: the fields of every sink are at their zero values
SinkIdle ==
    /\ sinkType = "none" /\ cfgBatchSize = 0
    /\ batchSize = 0

\* a sink right after its constructor, before any call
FreshSink ==
    /\ writeCalls = 0 /\ nextRec = 1
    /\ lastCall = NoCall /\ sinkRet = NoErr
    /\ created = <<>> /\ files = <<>> /\ writers = <<>>
    /\ batchData = <<>> /\ inserts = <<>>
    /\ passed = <<>> /\ flushFailed = FALSE
    /\ accessToken = "" /\ tokenExpiry = 0 /\ now = 0 /\ tokenDies = 0
    /\ tokenRequests = 0 /\ csvContent = <<>>
    /\ uploads = <<>> /\ messages = <<>>

\* the locals and observations before anything ran
Fresh ==
    /\ step = 0
    /\ mi = 1 /\ si = 1
    /\ currentStart = 0 /\ currentEnd = 0 /\ batchNumber = 0
    /\ attempt = 0 /\ retryDelay = 0
    /\ err = NoErr
    /\ result = Nil /\ fetchErr = NilErr
    /\ processedData = <<>>
    /\ pairErr = NilErr
    /\ retErr = NoErr
    /\ callAttempts = 0 /\ callFails = 0 /\ callSleeps = <<>>
    /\ apiResult = Nil /\ apiWarnings = 0
    /\ pairFetches = <<>> /\ pairBatches = <<>> /\ pairWrites = <<>>
    /\ lastOp = NoOp
    /\ pairTermErr = FALSE
    /\ failedCount = 0
    /\ fetchedFirst = {}
    /\ writeErr = NoErr
    /\ closeCalls = 0 /\ closeErr = NoErr /\ exitStatus = 0 - 1
    /\ nOut = NoOut
    /\ FreshSink

\* main has built the clients and the sink and calls ProcessMetrics
Init ==
    /\ start \in {k * Grain : k \in 0..MaxStartK}
    /\ end \in {k * Grain : k \in 0..MaxEndK}
    /\ stepStr \in StepStrs
    /\ pc = "ProcessMetrics"
    /\ nPair = <<ClientNames[1], MetricNames[1]>> /\ nKeys = <<>> /\ nResult = Nil
    /\ SinkIdle /\ MainIdle /\ RTIdle
    /\ Fresh

\* ------------------------------------------------------- ProcessMetrics
Validate_noRangeCheck ==
    /\ pc = "ProcessMetrics"
    /\ LET parsed == ParseDuration(stepStr) IN
       IF parsed.err # NoErr
       THEN /\ retErr' = "invalid step duration"
            /\ pc' = "returned"
            /\ step' = step
       ELSE /\ retErr' = retErr
            /\ pc' = "pairLoop"
            /\ step' = parsed.d
    /\ UNCHANGED <<inputs, mainVars, normVars, auxVars, mi, si, currentStart, currentEnd,
                   batchNumber, attempt, retryDelay, err, result, fetchErr,
                   processedData, pairErr, observed>>
\* ProcessMetrics, lines 32-40: parse the step, validate the time range
Validate ==
    /\ pc = "ProcessMetrics"
    /\ LET parsed == ParseDuration(stepStr) IN
       IF parsed.err # NoErr
       THEN /\ retErr' = "invalid step duration"
            /\ pc' = "returned"
            /\ step' = step
       ELSE IF start > end
       THEN /\ retErr' = "start time must be before end time"
            /\ pc' = "returned"
            /\ step' = parsed.d
       ELSE /\ retErr' = retErr
            /\ pc' = "pairLoop"
            /\ step' = parsed.d
    /\ UNCHANGED <<inputs, mainVars, normVars, auxVars, mi, si, currentStart, currentEnd, batchNumber,
                   attempt, retryDelay, err, result, fetchErr, processedData,
                   pairErr, observed>>

\* the pair after (m, s): sources are the inner loop, metrics the outer one
NextPair_metricsInner(m, s) ==
    IF m < NumMetrics THEN <<m + 1, s>> ELSE <<1, s + 1>>
NextPair(m, s) ==
    IF s < NumSources THEN <<m, s + 1>> ELSE <<m + 1, 1>>

\* ProcessMetrics, lines 43-50 and processInHourlyBatches, lines 70-75:
\* enter processInHourlyBatches for the pair (mi, si)
BeginPair ==
    /\ pc = "pairLoop"
    /\ mi <= NumMetrics /\ si <= NumSources
    /\ currentStart' = start
    /\ batchNumber' = 1
    /\ pc' = "batchLoop"
    /\ UNCHANGED <<inputs, mainVars, normVars, auxVars, step, mi, si, currentEnd, attempt, retryDelay, err,
                   result, fetchErr, processedData, pairErr, retErr, observed>>

\* ProcessMetrics, line 59: both loops are exhausted
ReturnNil ==
    /\ pc = "pairLoop"
    /\ ~(mi <= NumMetrics /\ si <= NumSources)
    /\ retErr' = NoErr
    /\ pc' = "returned"
    /\ UNCHANGED <<inputs, mainVars, normVars, auxVars, step, mi, si, currentStart, currentEnd, batchNumber,
                   attempt, retryDelay, err, result, fetchErr, processedData,
                   pairErr, observed>>

PairReturn_abort ==
    /\ pc = "pairReturn"
    /\ failedCount' = IF pairErr # NilErr THEN failedCount + 1 ELSE failedCount
    /\ IF pairErr # NilErr
       THEN /\ retErr' = pairErr /\ pc' = "returned"
            /\ UNCHANGED <<mi, si>>
       ELSE /\ mi' = NextPair(mi, si)[1]
            /\ si' = NextPair(mi, si)[2]
            /\ pc' = "pairLoop"
            /\ retErr' = retErr
    /\ currentStart' = 0 /\ currentEnd' = 0 /\ batchNumber' = 0
    /\ attempt' = 0 /\ retryDelay' = 0
    /\ err' = NoErr
    /\ result' = Nil /\ fetchErr' = NilErr
    /\ processedData' = <<>>
    /\ pairErr' = NilErr
    /\ callAttempts' = 0 /\ callFails' = 0 /\ callSleeps' = <<>>
    /\ apiResult' = Nil /\ apiWarnings' = 0
    /\ pairFetches' = <<>> /\ pairBatches' = <<>> /\ pairWrites' = <<>>
    /\ pairTermErr' = FALSE
    /\ writeErr' = NoErr
    /\ UNCHANGED <<inputs, mainVars, normVars, auxVars, step, lastOp, fetchedFirst>>
\* ProcessMetrics, lines 50-56: the pair returned; log its error and go on
\* with the next client, then the next metric.  The locals of the call that
\* returned are dead and are reset.
PairReturn ==
    /\ pc = "pairReturn"
    /\ failedCount' = IF pairErr # NilErr THEN failedCount + 1 ELSE failedCount
    /\ mi' = NextPair(mi, si)[1]
    /\ si' = NextPair(mi, si)[2]
    /\ currentStart' = 0 /\ currentEnd' = 0 /\ batchNumber' = 0
    /\ attempt' = 0 /\ retryDelay' = 0
    /\ err' = NoErr
    /\ result' = Nil /\ fetchErr' = NilErr
    /\ processedData' = <<>>
    /\ pairErr' = NilErr
    /\ callAttempts' = 0 /\ callFails' = 0 /\ callSleeps' = <<>>
    /\ apiResult' = Nil /\ apiWarnings' = 0
    /\ pairFetches' = <<>> /\ pairBatches' = <<>> /\ pairWrites' = <<>>
    /\ pairTermErr' = FALSE
    /\ pc' = "pairLoop"
    /\ writeErr' = NoErr
    /\ UNCHANGED <<inputs, mainVars, normVars, auxVars, step, retErr, lastOp, fetchedFirst>>

\* ----------------------------------------------- processInHourlyBatches
\* line 77: currentStart.Before(globalEnd)
LoopCond_notAfter(cs, ge) == cs <= ge
LoopCond(cs, ge) == cs < ge

\* lines 79-82: the end of the batch that starts at cs
BatchEnd_unclamped(cs, ge) == cs + Hour
BatchEnd(cs, ge) == IF cs + Hour > ge THEN ge ELSE cs + Hour

\* lines 77-90: the loop head; either call FetchRange for the next batch
\* (client.go lines 59-62: maxRetries, retryDelay, attempt := 1) or leave the
\* loop and return nil (lines 115-116)
BatchLoop ==
    /\ pc = "batchLoop"
    /\ IF LoopCond(currentStart, end)
       THEN /\ currentEnd' = BatchEnd(currentStart, end)
            /\ attempt' = 1
            /\ retryDelay' = InitialRetryDelay
            /\ callAttempts' = 0 /\ callFails' = 0 /\ callSleeps' = <<>>
            /\ pairFetches' = Append(pairFetches,
                   [query |-> MetricConfig(mi).Query, start |-> currentStart,
                    end |-> currentEnd', step |-> step])
            /\ lastOp' = [kind |-> "fetch", mi |-> mi, si |-> si,
                          start |-> currentStart]
            /\ fetchedFirst' = IF currentStart = start
                               THEN fetchedFirst \cup {<<mi, si>>}
                               ELSE fetchedFirst
            /\ pc' = "attempt"
            /\ pairErr' = pairErr
       ELSE /\ pairErr' = NilErr
            /\ pc' = "pairReturn"
            /\ UNCHANGED <<currentEnd, attempt, retryDelay, callAttempts,
                           callFails, callSleeps, pairFetches, lastOp,
                           fetchedFirst>>
    /\ UNCHANGED <<inputs, mainVars, normVars, auxVars, step, mi, si, currentStart, batchNumber, err, result,
                   fetchErr, processedData, retErr, apiResult, apiWarnings,
                   pairBatches, pairWrites, pairTermErr, failedCount,
                   writeErr>>

\* ------------------------------------------------- promClient.FetchRange
\* client.go line 93
NextDelay_linear(d) == d + InitialRetryDelay
NextDelay(d) == d * 2

\* client.go line 78: the attempt succeeded; the warnings are only printed
Succeeded_withoutWarnings(qerr, warnings) == qerr = NoErr /\ warnings = 0
Succeeded(qerr, warnings) == qerr = NoErr

\* client.go lines 62-85 and 96: one pass of the retry loop up to its return
\* or its sleep.  qerr, qres and warnings are what QueryRange handed back
\* (warnings is the number of warnings).
Attempt(qerr, qres, warnings) ==
    /\ pc = "attempt"
    /\ IF attempt <= maxRetries
       THEN /\ callAttempts' = callAttempts + 1
            /\ apiResult' = qres
            /\ apiWarnings' = warnings
            /\ err' = qerr
            /\ IF Succeeded(qerr, warnings)
               THEN /\ result' = qres /\ fetchErr' = NilErr
                    /\ pc' = "fetched"
                    /\ UNCHANGED <<callFails, pairTermErr>>
               ELSE /\ callFails' = callFails + 1
                    /\ IF attempt = maxRetries
                       THEN /\ result' = Nil
                            /\ fetchErr' = <<"failed after retries", maxRetries, qerr>>
                            /\ pairTermErr' = TRUE
                            /\ pc' = "fetched"
                       ELSE /\ pc' = "sleep"
                            /\ UNCHANGED <<result, fetchErr, pairTermErr>>
       ELSE /\ result' = Nil
            /\ fetchErr' = <<"maximum retry attempts exceeded", maxRetries, NoErr>>
            /\ pairTermErr' = TRUE
            /\ pc' = "fetched"
            /\ UNCHANGED <<callAttempts, callFails, apiResult, apiWarnings,
                           err>>
    /\ UNCHANGED <<inputs, mainVars, normVars, auxVars, step, mi, si, currentStart, currentEnd, batchNumber,
                   attempt, retryDelay, processedData, pairErr, retErr,
                   callSleeps, pairFetches, pairBatches, pairWrites, lastOp,
                   failedCount, fetchedFirst, writeErr>>

\* QueryRange succeeds with some result for the window
AttemptOk ==
    \E r \in RawResults(currentStart, currentEnd) : Attempt(NoErr, r, 0)

\* QueryRange fails (network error, timeout, bad status, bad payload)
AttemptFail == \E c \in Causes : Attempt(c, Nil, 0)

\* QueryRange succeeds and hands back warnings, too
AttemptOkWarned ==
    \E r \in RawResults(currentStart, currentEnd), w \in 0..MaxWarnings :
        Attempt(NoErr, r, w)

\* QueryRange fails and hands back warnings, too
AttemptFailWarned ==
    \E c \in Causes, w \in 0..MaxWarnings : Attempt(c, Nil, w)

Sleep_sameAttempt ==
    /\ pc = "sleep"
    /\ callSleeps' = Append(callSleeps, retryDelay)
    /\ retryDelay' = NextDelay(retryDelay)
    /\ attempt' = attempt
    /\ pc' = "attempt"
    /\ UNCHANGED <<inputs, mainVars, normVars, auxVars, step, mi, si, currentStart, currentEnd, batchNumber,
                   err, result, fetchErr, processedData, pairErr, retErr,
                   callAttempts, callFails, apiResult, apiWarnings, pairFetches,
                   pairBatches, pairWrites, lastOp, pairTermErr, failedCount,
                   fetchedFirst, writeErr>>
\* client.go lines 88-94: sleep, double the delay, next attempt
Sleep ==
    /\ pc = "sleep"
    /\ callSleeps' = Append(callSleeps, retryDelay)
    /\ retryDelay' = NextDelay(retryDelay)
    /\ attempt' = attempt + 1
    /\ pc' = "attempt"
    /\ UNCHANGED <<inputs, mainVars, normVars, auxVars, step, mi, si, currentStart, currentEnd, batchNumber,
                   err, result, fetchErr, processedData, pairErr, retErr,
                   callAttempts, callFails, apiResult, apiWarnings, pairFetches,
                   pairBatches, pairWrites, lastOp, pairTermErr, failedCount,
                   fetchedFirst, writeErr>>

\* ------------------------------------- processInHourlyBatches, continued
\* lines 90-93: FetchRange returned an error; the pair is given up
FetchFailed_skipBatch ==
    /\ pc = "fetched"
    /\ fetchErr # NilErr
    /\ currentStart' = currentEnd
    /\ batchNumber' = batchNumber + 1
    /\ pc' = "batchLoop"
    /\ UNCHANGED <<inputs, mainVars, normVars, auxVars, step, mi, si, currentEnd, attempt, retryDelay, err,
                   result, fetchErr, processedData, pairErr, retErr, observed>>
FetchFailed ==
    /\ pc = "fetched"
    /\ fetchErr # NilErr
    /\ pc' = "pairReturn"
    /\ pairErr' = <<"failed to fetch batch", batchNumber, fetchErr>>
    /\ UNCHANGED <<inputs, mainVars, normVars, auxVars, step, mi, si, currentStart, currentEnd, batchNumber,
                   attempt, retryDelay, err, result, fetchErr, processedData,
                   retErr, observed>>

\* line 96: processedData is declared anew in every iteration
BatchRecords_accumulate(held, new) == held \o new
BatchRecords(held, new) == new

\* line 101: len(processedData) > 0
ShouldWrite_moreThanOne(data) == Len(data) > 1
ShouldWrite_always(data) == Len(data) >= 0
ShouldWrite(data) == Len(data) > 0

\* lines 95-101 and 106-112: normalize the fetched result; a shape error
\* gives the pair up, an empty batch moves on to the next batch
ProcessBatch ==
    /\ pc = "fetched"
    /\ fetchErr = NilErr
    /\ LET pr == processBatchResult(ClientName(si), MetricConfig(mi).Name,
                                    MetricConfig(mi).LabelKeys, result)
       IN  IF pr.err # NoErr
           THEN /\ pc' = "pairReturn"
                /\ pairErr' = <<"failed to process batch results", batchNumber, pr.err>>
                /\ UNCHANGED <<processedData, pairBatches, currentStart,
                               batchNumber>>
           ELSE /\ processedData' = BatchRecords(processedData, pr.data)
                /\ pairBatches' = Append(pairBatches,
                       [start |-> currentStart, end |-> currentEnd,
                        data |-> pr.data])
                /\ pairErr' = pairErr
                /\ IF ShouldWrite(processedData')
                   THEN /\ pc' = "write"
                        /\ UNCHANGED <<currentStart, batchNumber>>
                   ELSE /\ currentStart' = currentEnd
                        /\ batchNumber' = batchNumber + 1
                        /\ pc' = "batchLoop"
    /\ UNCHANGED <<inputs, mainVars, normVars, auxVars, step, mi, si, currentEnd, attempt, retryDelay, err,
                   result, fetchErr, retErr, callAttempts, callFails,
                   callSleeps, apiResult, apiWarnings, pairFetches, pairWrites,
                   lastOp, pairTermErr, failedCount, fetchedFirst, writeErr>>

Write_continue(werr) ==
    /\ pc = "write"
    /\ pairWrites' = Append(pairWrites,
           [metricName |-> MetricConfig(mi).Name, data |-> processedData,
            start |-> currentStart, end |-> currentEnd])
    /\ lastOp' = [kind |-> "write", mi |-> mi, si |-> si, start |-> currentStart]
    /\ currentStart' = currentEnd
    /\ batchNumber' = batchNumber + 1
    /\ pc' = "batchLoop"
    /\ pairErr' = pairErr
    /\ UNCHANGED <<inputs, mainVars, normVars, auxVars, step, mi, si, currentEnd, attempt,
                   retryDelay, err, result, fetchErr, processedData, retErr,
                   callAttempts, callFails, callSleeps, apiResult, apiWarnings,
                   pairFetches, pairBatches, pairTermErr, failedCount,
                   fetchedFirst>>
    /\ writeErr' = werr

\* lines 102-105 and 111-112: p.sink.Write(metric.Name, processedData); werr
\* is what the sink returned
Write(werr) ==
    /\ pc = "write"
    /\ pairWrites' = Append(pairWrites,
           [metricName |-> MetricConfig(mi).Name, data |-> processedData,
            start |-> currentStart, end |-> currentEnd])
    /\ lastOp' = [kind |-> "write", mi |-> mi, si |-> si, start |-> currentStart]
    /\ IF werr # NoErr
       THEN /\ pairErr' = <<"failed to write batch to sink", batchNumber, werr>>
            /\ pc' = "pairReturn"
            /\ UNCHANGED <<currentStart, batchNumber>>
       ELSE /\ currentStart' = currentEnd
            /\ batchNumber' = batchNumber + 1
            /\ pc' = "batchLoop"
            /\ pairErr' = pairErr
    /\ UNCHANGED <<inputs, mainVars, normVars, auxVars, step, mi, si, currentEnd, attempt, retryDelay, err,
                   result, fetchErr, processedData, retErr, callAttempts,
                   callFails, callSleeps, apiResult, apiWarnings, pairFetches,
                   pairBatches, pairTermErr, failedCount, fetchedFirst>>
    /\ writeErr' = werr

WriteOk == Write(NoErr)

WriteFail == Write("sink error")

\* ------------------------------------------------------------------ main
\* main.go lines 98-105: ProcessMetrics returned an error; log.Fatalf exits
\* the process with status 1 and the deferred Close does not run
MainFatal ==
    /\ pc = "returned"
    /\ retErr # NoErr
    /\ exitStatus' = 1
    /\ pc' = "exited"
    /\ UNCHANGED <<inputs, normVars, auxVars, step, mi, si, currentStart, currentEnd,
                   batchNumber, attempt, retryDelay, err, result, fetchErr,
                   processedData, pairErr, retErr, observed, closeCalls,
                   closeErr>>

\* main.go lines 94 and 107-108: ProcessMetrics returned nil; main logs the
\* success and returns, the deferred outputSink.Close() runs and its result
\* cerr is dropped
MainReturn(cerr) ==
    /\ pc = "returned"
    /\ retErr = NoErr
    /\ closeCalls' = closeCalls + 1
    /\ closeErr' = cerr
    /\ exitStatus' = 0
    /\ pc' = "exited"
    /\ UNCHANGED <<inputs, normVars, auxVars, step, mi, si, currentStart, currentEnd,
                   batchNumber, attempt, retryDelay, err, result, fetchErr,
                   processedData, pairErr, retErr, observed>>

CloseOk == MainReturn(NoErr)

CloseFail == MainReturn("error closing file")

\* -------------------------------------------------------- specification
Next ==
    \/ Validate
    \/ BeginPair
    \/ ReturnNil
    \/ PairReturn
    \/ BatchLoop
    \/ AttemptOk
    \/ AttemptFail
    \/ Sleep
    \/ FetchFailed
    \/ ProcessBatch
    \/ WriteOk
    \/ WriteFail
    \/ MainFatal
    \/ CloseOk
    \/ CloseFail

Spec == Init /\ [][Next]_vars

\* ------------------- the run on a window with start before end, under the
\* scheduling of the single goroutine: it takes its next step whenever it
\* has one, since QueryRange runs under context.WithTimeout (client.go line
\* 63) and time.Sleep and the sink's Write return.  Every step moves pc.
\* The step is one that parses or one that does not: the parsed value is
\* only handed on to QueryRange.
InitLive == Init /\ start < end /\ stepStr \in {"5m", "abc"}

SpecLive == InitLive /\ [][Next]_vars /\ WF_pc(Next)

\* --------------------- the run up to the return of its first FetchRange,
\* with the warnings QueryRange hands back
NextFetch ==
    \/ Validate
    \/ BeginPair
    \/ BatchLoop
    \/ AttemptOkWarned
    \/ AttemptFailWarned
    \/ Sleep

SpecFetch == Init /\ [][NextFetch]_vars

\* ------------------------------------- the normalizer on its own inputs
LabelSets == { [instance |-> "a", job |-> "b"], [instance |-> "c", name |-> "up"] }

SamplePairs == { [Timestamp |-> 1500, Value |-> 1], [Timestamp |-> 2999, Value |-> 2] }

KeyLists == { <<>>, <<"instance">>, <<"job">>, <<"instance", "job">>,
              <<"job", "zone">>, <<"zone", "instance", "instance">> }

SeqsUpTo(S, n) == UNION { [1..k -> S] : k \in 0..n }

\* model.SampleStream
SampleStreams == [Metric : LabelSets, Values : SeqsUpTo(SamplePairs, MaxSamples)]

\* model.Sample
Samples == { [Metric |-> l, Timestamp |-> p.Timestamp, Value |-> p.Value] :
             l \in LabelSets, p \in SamplePairs }

\* model.Value: a matrix, a vector, or some other type
NormResults ==
    { [type |-> "matrix", vector |-> <<>>, matrix |-> m] :
          m \in SeqsUpTo(SampleStreams, MaxSeries) }
    \cup { [type |-> "vector", matrix |-> <<>>, vector |-> v] :
          v \in SeqsUpTo(Samples, MaxSeries) }
    \cup { [type |-> "scalar", vector |-> <<>>, matrix |-> <<>>] }

InitNorm ==
    /\ start = 0 /\ end = 0 /\ stepStr = "5m"
    /\ pc = "normalize"
    /\ nPair \in { <<ClientNames[1], MetricNames[1]>>, <<ClientNames[2], MetricNames[2]>> }
    /\ nKeys \in KeyLists
    /\ nResult \in NormResults
    /\ SinkIdle /\ MainIdle /\ RTIdle
    /\ Fresh

\* one call processBatchResult(instanceName, metricName, labelKeys, result)
Normalize ==
    /\ pc = "normalize"
    /\ nOut' = processBatchResult(nPair[1], nPair[2], nKeys, nResult)
    /\ pc' = "normalized"
    /\ UNCHANGED <<inputs, mainVars, auxVars, nPair, nKeys, nResult, step, mi, si,
                   currentStart, currentEnd, batchNumber, attempt, retryDelay,
                   err, result, fetchErr, processedData, pairErr, retErr,
                   observed>>

NextNorm == Normalize

SpecNorm == InitNorm /\ [][NextNorm]_vars

TypeOK ==
    /\ pc \in {"ProcessMetrics", "pairLoop", "batchLoop", "attempt", "sleep",
               "fetched", "write", "pairReturn", "returned", "exited",
               "normalize", "normalized", "sink", "closed", "main",
               "roundTrip"}
    /\ callAttempts \in 0..(maxRetries + 1)
    /\ exitStatus \in {0 - 1, 0, 1}

\* ------------------------------------------------------------ the sinks
SinkTypes == {"csv", "mysql", "feishu"}

SinkMetrics == {MetricNames[1], MetricNames[2]}

\* the label mappings of the records handed to a sink
RecordLabels == { [instance |-> "a", job |-> "b"], [instance |-> "c"] }

\* the label keys of the model as sort.Strings orders them
KeyOrder == <<"instance", "job", "zone">>

\* record number k of a sink's life; its value and timestamp tell it apart
SinkRecord(k, m, labels) ==
    [PrometheusInstance |-> ClientNames[1], MetricName |-> m,
     Timestamp |-> k, Value |-> k, Labels |-> labels]

\* the n records of one Write call, all with the same label keys
SinkData(first, m, n, labels) ==
    [i \in 1..n |-> SinkRecord(first + i - 1, m, labels)]

\* the label mapping of the records handed to the table and chat sinks
PlainLabels == [instance |-> "a", job |-> "b"]

\* the orders in which a range over the map labels can visit its keys
KeyOrders(labels) ==
    { o \in [1..Cardinality(DOMAIN labels) -> DOMAIN labels] :
          \A i, j \in DOMAIN o : i # j => o[i] # o[j] }

InOrder(q, S) == SelectSeq(q, LAMBDA k : k \in S)

\* csv_sink.go, getSortedLabelKeys
getSortedLabelKeys(labels) == InOrder(KeyOrder, DOMAIN labels)

\* fmt.Sprintf("label_%s", key)
LabelColumn(key) ==
    CASE key = "instance" -> "label_instance"
      [] key = "job"      -> "label_job"
      [] OTHER            -> "label_zone"

BaseColumns == <<"prometheus_instance", "metric_name", "timestamp", "value">>

\* CSVSink.createHeaderRow: the label columns follow the order in which the
\* range over sample.Labels visits the keys, which the language leaves open
createHeaderRow(sample, visit) ==
    BaseColumns \o [i \in 1..Len(visit) |-> LabelColumn(visit[i])]

\* CSVSink.createDataRow
createDataRow(data) ==
    << data.PrometheusInstance, data.MetricName,
       [RFC3339 |-> data.Timestamp], [f |-> data.Value] >>
    \o [i \in 1..Len(getSortedLabelKeys(data.Labels)) |->
           data.Labels[getSortedLabelKeys(data.Labels)[i]]]

\* CSVSink.Write, line 43: no writer is registered for the metric
NeedsWriter_always(w, metricName) == TRUE
NeedsWriter(w, metricName) == metricName \notin DOMAIN w

\* the call that a sink operation records
CallOf(op, metricName, data) ==
    [op |-> op, metricName |-> metricName, data |-> data]

\* CSVSink.Write and createWriter.  visit is the order in which the header's
\* range visits the label keys, createErr what os.Create returned and ioErr
\* what the writer reported after Flush.
CSVWriteOp(metricName, data, visit, createErr, ioErr) ==
    LET new == NeedsWriter(writers, metricName)
        idx == IF new THEN Len(created) + 1 ELSE writers[metricName]
        rows == [i \in 1..Len(data) |-> createDataRow(data[i])]
        file == IF new
                THEN [metric |-> metricName, sample |-> data[1],
                      header |-> createHeaderRow(data[1], visit),
                      lines |-> << createHeaderRow(data[1], visit) >>,
                      err |-> NoErr, closed |-> FALSE]
                ELSE created[idx]
    IN
    /\ lastCall' = CallOf("Write", metricName, data)
    /\ writeCalls' = writeCalls + 1
    /\ nextRec' = nextRec + Len(data)
    /\ IF Len(data) = 0
       THEN /\ sinkRet' = NoErr
            /\ UNCHANGED csvVars
       ELSE IF new /\ createErr # NoErr
       THEN /\ sinkRet' = <<"failed to create CSV file", createErr>>
            /\ UNCHANGED csvVars
       ELSE /\ files' = (IF new THEN (metricName :> idx) @@ files ELSE files)
            /\ writers' = (IF new THEN (metricName :> idx) @@ writers
                           ELSE writers)
            /\ IF file.err # NoErr
               THEN /\ sinkRet' = <<"failed to write CSV row", file.err>>
                    /\ created' = created
               ELSE /\ sinkRet' = ioErr
                    /\ created' =
                         [i \in 1..(IF new THEN idx ELSE Len(created)) |->
                            IF i = idx
                            THEN [file EXCEPT !.lines = @ \o rows,
                                              !.err = ioErr]
                            ELSE created[i]]

\* a Write call on the file sink
CSVWrite ==
    /\ pc = "sink" /\ sinkType = "csv"
    /\ writeCalls < MaxWrites
    /\ \E m \in SinkMetrics, n \in 0..MaxRecords, labels \in RecordLabels,
          createErr \in {NoErr, "permission denied"},
          ioErr \in {NoErr, "no space left on device"} :
          \E visit \in KeyOrders(labels) :
             CSVWriteOp(m, SinkData(nextRec, m, n, labels), visit, createErr,
                        ioErr)
    /\ UNCHANGED <<inputs, locals, observed, mainVars, normVars, mainIn, rtVars, sinkIn,
                   mysqlVars, feishuVars>>

\* CSVSink.Close: every file is closed and forgotten; the error returned is
\* that of the failing file the range visited last
CSVClose ==
    /\ pc = "sink" /\ sinkType = "csv"
    /\ \E failing \in SUBSET (DOMAIN files) :
          /\ IF failing = {}
             THEN sinkRet' = NoErr
             ELSE \E name \in failing :
                     sinkRet' = <<"error closing file", name>>
          /\ created' = [i \in 1..Len(created) |->
                            IF \E name \in DOMAIN files : files[name] = i
                            THEN [created[i] EXCEPT !.closed = TRUE]
                            ELSE created[i]]
    /\ files' = <<>> /\ writers' = <<>>
    /\ lastCall' = CallOf("Close", "", <<>>)
    /\ pc' = "closed"
    /\ UNCHANGED <<inputs, step, mi, si, currentStart, currentEnd,
                   batchNumber, attempt, retryDelay, err, result, fetchErr,
                   processedData, pairErr, retErr, observed, mainVars,
                   normVars, mainIn, rtVars, sinkIn, writeCalls, nextRec, mysqlVars,
                   feishuVars>>

\* ---------------------------------------------------------- MySQLSink
DefaultBatchSize == 1000

\* NewMySQLSink, lines 33-36
BatchSizeOf(configured) ==
    IF configured <= 0 THEN DefaultBatchSize ELSE configured

\* common.MapToJSONString: the JSON object of a map, keys in sorted order
MapToJSONString(m) ==
    [json |-> [i \in 1..Len(InOrder(KeyOrder, DOMAIN m)) |->
                  << InOrder(KeyOrder, DOMAIN m)[i],
                     m[InOrder(KeyOrder, DOMAIN m)[i]] >>]]

\* MySQLSink.Write, lines 104-110: the row of one record
MySQLRow(metricName, item) ==
    << item.PrometheusInstance, metricName, item.Timestamp, item.Value,
       MapToJSONString(item.Labels) >>

\* MySQLSink.Write, line 91
BatchFull_late(buf, size) == Len(buf) > size
BatchFull(buf, size) == Len(buf) >= size

flushBatch_noClear(buf, ins, execErr) ==
    IF Len(buf) = 0 THEN [err |-> NoErr, buf |-> buf, ins |-> ins]
    ELSE IF execErr # NoErr
    THEN [err |-> <<"insert failed", execErr>>, buf |-> buf, ins |-> ins]
    ELSE [err |-> NoErr, buf |-> buf, ins |-> Append(ins, buf)]
\* MySQLSink.flushBatch on the buffer buf after the statements ins; execErr
\* is what db.Exec returned
flushBatch(buf, ins, execErr) ==
    IF Len(buf) = 0 THEN [err |-> NoErr, buf |-> buf, ins |-> ins]
    ELSE IF execErr # NoErr
    THEN [err |-> <<"insert failed", execErr>>, buf |-> buf, ins |-> ins]
    ELSE [err |-> NoErr, buf |-> <<>>, ins |-> Append(ins, buf)]

OnFlushError_buffersRow(fl, row) == [fl EXCEPT !.buf = Append(@, row)]
\* MySQLSink.Write, lines 92-94: the flush failed with the outcome fl while
\* row was waiting; Write returns the error and leaves the loop
OnFlushError(fl, row) == fl

\* MySQLSink.Write, lines 89-113: the loop over the records.  flushNo counts
\* the flushes of this call, and the flush number failAt fails.
RECURSIVE WriteLoop(_, _, _, _, _, _, _)
WriteLoop(metricName, items, buf, ins, size, flushNo, failAt) ==
    IF items = <<>> THEN [err |-> NoErr, buf |-> buf, ins |-> ins]
    ELSE IF BatchFull(buf, size)
    THEN LET fl == flushBatch(buf, ins,
                      IF flushNo = failAt THEN "connection lost" ELSE NoErr)
         IN  IF fl.err # NoErr
             THEN OnFlushError(fl, MySQLRow(metricName, Head(items)))
             ELSE WriteLoop(metricName, Tail(items),
                            Append(fl.buf, MySQLRow(metricName, Head(items))),
                            fl.ins, size, flushNo + 1, failAt)
    ELSE WriteLoop(metricName, Tail(items),
                   Append(buf, MySQLRow(metricName, Head(items))),
                   ins, size, flushNo, failAt)

\* a Write call on the table sink
MySQLWrite ==
    /\ pc = "sink" /\ sinkType = "mysql"
    /\ writeCalls < MaxWrites
    /\ \E m \in SinkMetrics, n \in 0..MaxRecords, failAt \in 0..MaxRecords :
          LET data == SinkData(nextRec, m, n, PlainLabels)
              out == WriteLoop(m, data, batchData, inserts, batchSize, 1,
                               failAt)
          IN  /\ lastCall' = CallOf("Write", m, data)
              /\ nextRec' = nextRec + Len(data)
              /\ sinkRet' = out.err
              /\ batchData' = out.buf
              /\ inserts' = out.ins
              /\ passed' = passed \o [i \in 1..Len(data) |->
                                         MySQLRow(m, data[i])]
              /\ flushFailed' = (flushFailed \/ out.err # NoErr)
    /\ writeCalls' = writeCalls + 1
    /\ UNCHANGED <<inputs, locals, observed, mainVars, normVars, mainIn, rtVars, sinkIn,
                   batchSize, csvVars, feishuVars>>

\* MySQLSink.Close: flush what is buffered, then close the connection;
\* execErr is what db.Exec returned and dbErr what db.Close returned
MySQLCloseOp(execErr, dbErr) ==
    LET fl == flushBatch(batchData, inserts, execErr) IN
    /\ pc = "sink" /\ sinkType = "mysql"
    /\ batchData' = fl.buf
    /\ inserts' = fl.ins
    /\ flushFailed' = (flushFailed \/ fl.err # NoErr)
    /\ sinkRet' = (IF Len(batchData) > 0 /\ fl.err # NoErr
                   THEN <<"failed to flush final batch", fl.err>>
                   ELSE dbErr)
    /\ lastCall' = CallOf("Close", "", <<>>)
    /\ pc' = "closed"
    /\ UNCHANGED <<inputs, step, mi, si, currentStart, currentEnd,
                   batchNumber, attempt, retryDelay, err, result, fetchErr,
                   processedData, pairErr, retErr, observed, mainVars,
                   normVars, mainIn, rtVars, sinkIn, writeCalls, nextRec, batchSize, passed,
                   csvVars, feishuVars>>

MySQLClose ==
    \E execErr \in {NoErr, "connection lost"},
       dbErr \in {NoErr, "close failed"} : MySQLCloseOp(execErr, dbErr)

\* --------------------------------------------------------- FeishuSink

\* the tenant_access_token values the token endpoint hands out, in order
TokenNames == <<"t1", "t2", "t3", "t4", "t5", "t6">>

\* the expire_in values of the token endpoint, in seconds
ExpireIns == {30, 90, 150}

SafetyMargin_none == 60 - 60
\* ensureAccessToken, line 144: seconds taken off expire_in
SafetyMargin == 60

\* the clock of the model ticks in thirds of the margin, less than the
\* 30 s timeout of the sink's HTTP client (NewFeishuSink, line 56)
TimeStep == SafetyMargin \div 3

\* ensureAccessToken, line 100: the token held is still good at time t
TokenValid(token, expiry, t) == token # "" /\ t < expiry

\* FeishuSink.Write, lines 63-68: the call asks the token endpoint when it
\* has records to send and holds no good token
AsksToken_beforeCheck(data, token, expiry, t) == ~TokenValid(token, expiry, t)
AsksToken(data, token, expiry, t) ==
    Len(data) # 0 /\ ~TokenValid(token, expiry, t)

\* feishu_sink.go, createHeaderRow: the label keys sorted
feishuHeaderRow(data) == BaseColumns \o InOrder(KeyOrder, DOMAIN data.Labels)

\* feishu_sink.go, createDataRow
feishuDataRow(data) ==
    << data.PrometheusInstance, data.MetricName,
       [RFC3339 |-> data.Timestamp], [v |-> data.Value] >>
    \o [i \in 1..Len(InOrder(KeyOrder, DOMAIN data.Labels)) |->
           data.Labels[InOrder(KeyOrder, DOMAIN data.Labels)[i]]]

\* FeishuSink.createCSVContent
createCSVContent(metricName, data) ==
    << feishuHeaderRow(data[1]) >>
    \o [i \in 1..Len(data) |-> feishuDataRow(data[i])]

\* FeishuSink.Write.  t is the time ensureAccessToken reads at line 100;
\* tokErr and expireIn are the answer of the token endpoint if it is asked,
\* upErr and msgErr what the upload and the message returned.  The upload
\* is sent at t and takes lag seconds, so the message is sent at t + lag.
FeishuWriteOp(metricName, data, t, lag, tokErr, expireIn, upErr, msgErr) ==
    LET asks == AsksToken(data, accessToken, tokenExpiry, t)
        got == asks /\ tokErr = NoErr
        token == IF got THEN TokenNames[tokenRequests + 1] ELSE accessToken
        sent == [metricName |-> metricName, token |-> token, at |-> t]
        messaged == Len(data) # 0 /\ (asks => tokErr = NoErr) /\ upErr = NoErr
    IN
    /\ now' = (IF messaged THEN t + lag ELSE t)
    /\ lastCall' = CallOf("Write", metricName, data)
    /\ writeCalls' = writeCalls + 1
    /\ nextRec' = nextRec + Len(data)
    /\ tokenRequests' = (IF asks THEN tokenRequests + 1 ELSE tokenRequests)
    /\ accessToken' = token
    /\ tokenExpiry' = (IF got THEN t + (expireIn - SafetyMargin)
                       ELSE tokenExpiry)
    /\ tokenDies' = (IF got THEN t + expireIn ELSE tokenDies)
    /\ IF Len(data) = 0
       THEN /\ sinkRet' = NoErr
            /\ UNCHANGED <<csvContent, uploads, messages>>
       ELSE IF asks /\ tokErr # NoErr
       THEN /\ sinkRet' = <<"failed to get access token", tokErr>>
            /\ UNCHANGED <<csvContent, uploads, messages>>
       ELSE /\ csvContent' = createCSVContent(metricName, data)
            /\ uploads' = Append(uploads, sent)
            /\ IF upErr # NoErr
               THEN /\ sinkRet' = <<"failed to upload file", upErr>>
                    /\ messages' = messages
               ELSE /\ messages' = Append(messages,
                                           [sent EXCEPT !.at = t + lag])
                    /\ sinkRet' = (IF msgErr # NoErr
                                   THEN <<"failed to send message", msgErr>>
                                   ELSE NoErr)

\* the metric names handed to the chat-message sink: the name only titles
\* the attachment and the message (uploadFile, sendMessage)
FeishuMetrics == {MetricNames[1]}

\* the answers of the token endpoint, the upload and the message are read
\* only by a Write that gets that far; the others are left at their first
\* values
AnswersRead(data, t, lag, tokErr, expireIn, upErr, msgErr) ==
    LET asks == AsksToken(data, accessToken, tokenExpiry, t)
        uploads_ == Len(data) # 0 /\ (asks => tokErr = NoErr)
    IN  /\ asks \/ tokErr = NoErr
        /\ (asks /\ tokErr = NoErr) \/ expireIn = 30
        /\ uploads_ \/ upErr = NoErr
        /\ (uploads_ /\ upErr = NoErr) \/ (msgErr = NoErr /\ lag = 0)

\* a Write call on the chat-message sink, now or a tick later
FeishuWrite ==
    /\ pc = "sink" /\ sinkType = "feishu"
    /\ writeCalls < MaxWrites
    /\ \E m \in FeishuMetrics, n \in 0..MaxRecords,
          t \in {now, now + TimeStep}, lag \in {0, TimeStep},
          tokErr \in {NoErr, "token refused"}, expireIn \in ExpireIns,
          upErr \in {NoErr, "upload failed"},
          msgErr \in {NoErr, "message send failed"} :
          /\ t + lag <= MaxTicks * TimeStep
          \* an answer nobody asked for is not drawn
          /\ AnswersRead(SinkData(nextRec, m, n, PlainLabels), t, lag,
                         tokErr, expireIn, upErr, msgErr)
          /\ FeishuWriteOp(m, SinkData(nextRec, m, n, PlainLabels), t, lag,
                           tokErr, expireIn, upErr, msgErr)
    /\ UNCHANGED <<inputs, locals, observed, mainVars, normVars, mainIn, rtVars, sinkIn,
                   csvVars, mysqlVars>>

\* FeishuSink.Close: nothing to clean up
FeishuClose ==
    /\ pc = "sink" /\ sinkType = "feishu"
    /\ sinkRet' = NoErr
    /\ lastCall' = CallOf("Close", "", <<>>)
    /\ pc' = "closed"
    /\ UNCHANGED <<inputs, step, mi, si, currentStart, currentEnd,
                   batchNumber, attempt, retryDelay, err, result, fetchErr,
                   processedData, pairErr, retErr, observed, mainVars,
                   normVars, mainIn, rtVars, sinkIn, writeCalls, nextRec, csvVars, mysqlVars,
                   feishuVars>>

\* ------------------------------------------- a sink on its own: NewSink,
\* then Write calls, then Close
InitSink ==
    /\ start = 0 /\ end = 0 /\ stepStr = "5m"
    /\ pc = "sink"
    /\ nPair = <<ClientNames[1], MetricNames[1]>> /\ nKeys = <<>> /\ nResult = Nil
    /\ sinkType \in SinkTypes
    /\ cfgBatchSize \in (IF sinkType = "mysql" THEN (0 - 1)..MaxBatch ELSE {0})
    /\ batchSize = (IF sinkType = "mysql" THEN BatchSizeOf(cfgBatchSize) ELSE 0)
    /\ MainIdle /\ RTIdle
    /\ Fresh

NextSink ==
    \/ CSVWrite
    \/ CSVClose
    \/ MySQLWrite
    \/ MySQLClose
    \/ FeishuWrite
    \/ FeishuClose

SpecSink == InitSink /\ [][NextSink]_vars

\* ----------------------------------------- main: flags and time range
\* the RFC3339 texts of the model and the instants they denote
TimeTexts == {"1970-01-01T00:00:00Z", "1970-01-01T00:30:00Z",
              "1970-01-01T01:00:00Z"}

\* time.Parse(time.RFC3339, s), the instant in seconds
ParseRFC3339(s) ==
    CASE s = "1970-01-01T00:00:00Z" -> [err |-> NoErr, t |-> 0]
      [] s = "1970-01-01T00:30:00Z" -> [err |-> NoErr, t |-> 1800]
      [] s = "1970-01-01T01:00:00Z" -> [err |-> NoErr, t |-> 3600]
      [] OTHER -> [err |-> "parsing time: cannot parse", t |-> 0]

\* main.go lines 30-59: the time range and the step handed to
\* ProcessMetrics; a text that does not parse ends the process (log.Fatalf)
ParseTimeRange ==
    /\ pc = "main"
    /\ LET st == IF flagStart # "" THEN ParseRFC3339(cfgStart)
                 ELSE ParseRFC3339(cfgStart)
           et == IF flagEnd # "" THEN ParseRFC3339(flagEnd)
                 ELSE ParseRFC3339(cfgEnd)
       IN  IF st.err # NoErr
           THEN /\ exitStatus' = 1 /\ pc' = "exited"
                /\ UNCHANGED <<start, end, stepStr>>
           ELSE IF et.err # NoErr
           THEN /\ exitStatus' = 1 /\ pc' = "exited"
                /\ start' = st.t
                /\ UNCHANGED <<end, stepStr>>
           ELSE /\ start' = st.t /\ end' = et.t
                /\ stepStr' = (IF flagStep # "" THEN flagStep ELSE cfgStep)
                /\ pc' = "ProcessMetrics"
                /\ exitStatus' = exitStatus
    /\ UNCHANGED <<step, mi, si, currentStart, currentEnd, batchNumber,
                   attempt, retryDelay, err, result, fetchErr, processedData,
                   pairErr, retErr, observed, closeCalls, closeErr, normVars,
                   auxVars>>

InitMain ==
    /\ start = 0 /\ end = 0 /\ stepStr = ""
    /\ pc = "main"
    /\ nPair = <<ClientNames[1], MetricNames[1]>> /\ nKeys = <<>> /\ nResult = Nil
    /\ flagStart \in TimeTexts \cup {"", "yesterday"}
    /\ flagEnd \in TimeTexts \cup {"", "yesterday"}
    /\ flagStep \in {"", "5m"}
    /\ cfgStart \in TimeTexts \cup {"", "2024-01-01"}
    /\ cfgEnd \in TimeTexts \cup {"", "2024-01-01"}
    /\ cfgStep \in {"0s", "abc"}
    /\ SinkIdle /\ RTIdle
    /\ Fresh

NextMain == ParseTimeRange

SpecMain == InitMain /\ [][NextMain]_vars

\* ------------------------------------------------- authRoundTripper
\* the headers of the requests the API client hands to the round tripper
RequestHeaders ==
    [Authorization : {NoAuth, [scheme |-> "Bearer", user |-> "tok", pass |-> ""]},
     Accept : {"", "application/json", "*/*"}]

\* http.Request.SetBasicAuth on a request with the header h
SetBasicAuth(h, u, p) ==
    [h EXCEPT !.Authorization = [scheme |-> "Basic", user |-> u, pass |-> p]]

\* authRoundTripper.RoundTrip on the caller's request, whose header is h.
\* req is a pointer: SetBasicAuth writes into the caller's request, and that
\* same request is handed to a.rt.
RoundTrip(h) ==
    /\ pc = "roundTrip"
    /\ rtCalls < MaxRequests
    /\ reqBefore' = h
    /\ reqHeader' = (IF username # "" /\ password # ""
                     THEN SetBasicAuth(h, username, password)
                     ELSE h)
    /\ sentHeader' = reqHeader'
    /\ rtCalls' = rtCalls + 1
    /\ UNCHANGED <<inputs, locals, observed, mainVars, normVars, sinkIn,
                   sinkVars, mainIn, username, password>>

\* the caller sends a new request, or the request of its last call again
SendRequest == \E h \in RequestHeaders \cup {reqHeader} : RoundTrip(h)

\* newAuthRoundTripper(cfg.Username, cfg.Password, http.DefaultTransport)
InitRT ==
    /\ start = 0 /\ end = 0 /\ stepStr = "5m"
    /\ pc = "roundTrip"
    /\ nPair = <<ClientNames[1], MetricNames[1]>> /\ nKeys = <<>> /\ nResult = Nil
    /\ username \in {"", "admin", "reader"}
    /\ password \in {"", "s3cret", "hunter2"}
    /\ reqBefore = NoHeader /\ reqHeader = NoHeader /\ sentHeader = NoHeader
    /\ rtCalls = 0
    /\ SinkIdle /\ MainIdle
    /\ Fresh

NextRT == SendRequest

SpecRT == InitRT /\ [][NextRT]_vars

\* ------------------------------------------------------------- helpers
RECURSIVE SumSeq(_)
SumSeq(q) == IF q = <<>> THEN 0 ELSE Head(q) + SumSeq(Tail(q))

CeilDiv(a, b) == (a + b - 1) \div b

Min(a, b) == IF a < b THEN a ELSE b

NonEmpty(b) == b.data # <<>>

\* the run passed the checks of ProcessMetrics and its window is not empty
ProperRun == ParseDuration(stepStr).err = NoErr /\ start < end

\* --------------------------------------------------------------- claims
\* C1: one FetchRange call makes at most 5 QueryRange attempts; when all 5
\* fail it has returned a terminal error with a nil result, whatever the
\* causes, and there is no 6th attempt.
C1_AtMostFiveAttempts ==
    /\ callAttempts <= 5
    /\ callFails = 5 =>
          /\ pc \in {"fetched", "pairReturn"}
          /\ fetchErr # NilErr
          /\ result = Nil

C1_Witness == pc = "fetched" /\ callFails = 5 /\ callAttempts = 5

\* C2: the sleep before retry n (n = 1..4) is 2s * 2^(n-1); sleep n lies
\* between attempt n and attempt n+1; a call whose 5 attempts all failed
\* slept exactly 2, 4, 8, 16 and never sleeps after the 5th attempt.
C2_BackoffSchedule ==
    /\ Len(callSleeps) <= 4
    /\ \A n \in 1..Len(callSleeps) : callSleeps[n] = 2 * 2^(n - 1)
    /\ pc = "sleep" => callAttempts <= 4 /\ Len(callSleeps) = callAttempts - 1
    /\ pc = "attempt" => Len(callSleeps) = callAttempts
    /\ callFails = 5 => callSleeps = <<2, 4, 8, 16>>

C2_Witness == pc = "fetched" /\ callFails = 5 /\ Len(callSleeps) = 4

\* C3: when the first successful attempt is attempt k, FetchRange returns
\* that attempt's result and no error after exactly k attempts and k-1
\* sleeps that total 2*(2^(k-1) - 1) seconds (30 for k = 5); nothing is
\* attempted or slept after the success.
C3_SuccessAtAttemptK ==
    /\ (pc = "fetched" /\ fetchErr = NilErr) =>
          /\ callAttempts \in 1..5
          /\ callFails = callAttempts - 1
          /\ Len(callSleeps) = callAttempts - 1
          /\ SumSeq(callSleeps) = 2 * (2^(callAttempts - 1) - 1)
          /\ result = apiResult
          /\ result # Nil
    /\ pc \in {"attempt", "sleep"} => callFails = callAttempts

C3_Witness ==
    /\ pc = "fetched" /\ fetchErr = NilErr
    /\ callAttempts = 5 /\ callFails = 4
    /\ SumSeq(callSleeps) = 30

\* the pair (mi, si) ran through its whole window without an error
PairCompleted == pc = "pairReturn" /\ pairErr = NilErr

\* C4: for a window with start < end whose length is not a multiple of one
\* hour, a pair whose fetches all succeed and that runs to completion issues
\* exactly ceil((end-start)/1h) sub-windows, the last strictly shorter than
\* one hour; the sub-windows are pairwise disjoint and their union is
\* exactly [start, end).
C4_SubWindowsPartition ==
    (PairCompleted /\ start < end /\ (end - start) % 3600 # 0) =>
        LET f == pairFetches
            n == Len(f)
        IN  /\ n = CeilDiv(end - start, 3600)
            /\ f[n].end - f[n].start < 3600
            /\ \A i \in 1..n : start <= f[i].start /\ f[i].start < f[i].end
                               /\ f[i].end <= end
            /\ \A i, j \in 1..n :
                  i # j => (f[i].end <= f[j].start \/ f[j].end <= f[i].start)
            \* no gap: the window start is covered, and the end of every
            \* sub-window is the window end or lies in another sub-window
            /\ \E i \in 1..n : f[i].start = start
            /\ \A i \in 1..n :
                  \/ f[i].end = end
                  \/ \E j \in 1..n : f[j].start <= f[i].end /\ f[i].end < f[j].end

C4_Witness ==
    /\ PairCompleted /\ end - start = 9000
    /\ Len(pairFetches) = 3
    /\ pairFetches[3].end - pairFetches[3].start = 1800

\* C5: within one pair the FetchRange calls are chronological: the first
\* starts at the global start, every call ends at min(its start + 1h, global
\* end), every later call starts where the previous one ended, every call
\* carries the pair's query and the run's step, and no call is issued for a
\* start at or after the global end.
C5_ChronologicalFetches ==
    \A i \in 1..Len(pairFetches) :
        LET f == pairFetches[i] IN
        /\ f.query = Queries[mi]
        /\ f.step = ParseDuration(stepStr).d
        /\ f.start < end
        /\ f.end = Min(f.start + 3600, end)
        /\ i = 1 => f.start = start
        /\ i > 1 => f.start = pairFetches[i - 1].end
                    /\ f.start > pairFetches[i - 1].start

C5_Witness ==
    /\ pc = "attempt" /\ Len(pairFetches) = 3
    /\ pairFetches[3].start = start + 7200

\* a step that issues a FetchRange call or a sink Write
IssuesFetch == Len(pairFetches') > Len(pairFetches)
IssuesWrite == Len(pairWrites') > Len(pairWrites)

PairLess(m1, s1, m2, s2) == m1 < m2 \/ (m1 = m2 /\ s1 < s2)

\* C6: once FetchRange returned a terminal error for a sub-window of a
\* pair, no FetchRange and no Write is issued for that pair any more (none
\* while it is the current pair, and the current pair only ever moves to a
\* strictly later one), and the error is returned to ProcessMetrics, which
\* logs it.
C6_FetchErrorAbortsPair ==
    [][ /\ (IssuesFetch \/ IssuesWrite) =>
               /\ ~pairTermErr
               /\ lastOp'.mi = mi /\ lastOp'.si = si
               /\ mi' = mi /\ si' = si
        /\ (pairTermErr /\ pc = "fetched") =>
               pc' = "pairReturn" /\ pairErr' # NilErr /\ pairTermErr'
        /\ (pairTermErr /\ pc = "pairReturn") =>
               pairErr # NilErr /\ failedCount' = failedCount + 1
        /\ (pairTermErr /\ ~pairTermErr') => pc = "pairReturn"
        /\ <<mi', si'>> # <<mi, si>> => PairLess(mi, si, mi', si')
      ]_vars

C6_Witness ==
    /\ pc = "pairReturn" /\ pairTermErr
    /\ Len(pairFetches) = 1 /\ end - start > 3600
    /\ failedCount > 0

\* C7: a terminal error in one pair never keeps another pair from being
\* processed: when a run that passed validation returns, every pair of
\* metrics x sources has had its first sub-window fetched, whichever of the
\* other pairs failed.
C7_EveryPairFetched ==
    (pc = "returned" /\ ProperRun) => fetchedFirst = AllPairs

C7_Witness ==
    /\ pc = "returned" /\ ProperRun
    /\ failedCount = Cardinality(AllPairs) - 1

LexLess(a, b) ==
    \/ a.mi < b.mi
    \/ a.mi = b.mi /\ a.si < b.si
    \/ a.mi = b.mi /\ a.si = b.si /\ a.start < b.start

\* C8: pairs are processed one at a time, metrics outer, sources inner:
\* every FetchRange is issued for a (metric index, source index, sub-window
\* start) strictly after that of every earlier FetchRange and Write, and
\* every Write is issued for the sub-window of the FetchRange just before
\* it, so the sink sees writes ordered by (metric, source, start).
C8_PairOrder ==
    [][ /\ IssuesFetch =>
               /\ lastOp'.kind = "fetch"
               /\ lastOp'.mi = mi /\ lastOp'.si = si
               /\ lastOp.kind # "none" => LexLess(lastOp, lastOp')
        /\ IssuesWrite =>
               /\ lastOp.kind = "fetch"
               /\ lastOp' = [lastOp EXCEPT !.kind = "write"]
               /\ lastOp'.mi = mi /\ lastOp'.si = si
               /\ lastOp'.start = pairWrites'[Len(pairWrites')].start
      ]_vars

C8_Witness ==
    /\ lastOp.kind = "write" /\ lastOp.mi = 2 /\ lastOp.si = 1
    /\ lastOp.start > start
    /\ failedCount = 0

\* the batches of pairBatches that had at least one record
WrittenBatches == SelectSeq(pairBatches, NonEmpty)

\* C9: every sub-window whose fetch succeeded and whose normalization gave
\* at least one record is passed to sink Write exactly once with exactly
\* its records, whatever fails later; only the batch being written is
\* still pending.
C9_EveryBatchWrittenOnce ==
    LET due == IF pc = "write"
               THEN SubSeq(WrittenBatches, 1, Len(WrittenBatches) - 1)
               ELSE WrittenBatches
    IN  /\ Len(pairWrites) = Len(due)
        /\ \A i \in 1..Len(due) :
              /\ pairWrites[i].data = due[i].data
              /\ pairWrites[i].start = due[i].start
              /\ pairWrites[i].end = due[i].end
              /\ pairWrites[i].metricName = MetricNames[mi]
        /\ pc = "write" => WrittenBatches # <<>>

C9_Witness ==
    /\ end - start = 5400
    /\ pc = "pairReturn" /\ failedCount > 0
    /\ Len(pairWrites) = 2 /\ Len(pairBatches) = 2
    /\ pairWrites[1].start = start /\ pairWrites[1].end = start + 3600
    /\ pairWrites[2].start = start + 3600 /\ pairWrites[2].end = start + 5400

\* C10: records are streamed per sub-window: while FetchRange of a later
\* sub-window runs, the Write of every earlier non-empty sub-window of the
\* pair has been issued, and the records the processor holds are those of
\* one single sub-window.
C10_StreamedPerSubWindow ==
    /\ pc \in {"attempt", "sleep", "fetched"} =>
          /\ Len(pairWrites) = Len(WrittenBatches)
          /\ Len(pairBatches) = Len(pairFetches) - 1
    /\ processedData # <<>> =>
          \E i \in 1..Len(pairBatches) :
              /\ processedData = pairBatches[i].data
              /\ \A k \in 1..Len(processedData) :
                    /\ pairBatches[i].start <= processedData[k].Timestamp
                    /\ processedData[k].Timestamp <= pairBatches[i].end

C10_Witness ==
    /\ pc = "attempt" /\ Len(pairFetches) = 2
    /\ Len(pairWrites) = 1 /\ processedData = pairWrites[1].data

\* C11: when start equals end, ProcessMetrics fails validation with a
\* "start must precede end" error and no FetchRange call is made.
C11_EqualWindowRejected ==
    (pc = "returned" /\ start = end /\ ParseDuration(stepStr).err = NoErr) =>
        /\ retErr = "start time must be before end time"
        /\ lastOp = NoOp

\* C12: ProcessMetrics checks step > 0 itself: with a step string that
\* parses to a zero or negative duration it returns an error and issues no
\* FetchRange call.
C12_NonPositiveStepRejected ==
    (ParseDuration(stepStr).err = NoErr /\ ParseDuration(stepStr).d <= 0) =>
        /\ pairFetches = <<>> /\ lastOp = NoOp
        /\ pc = "returned" => retErr # NoErr

\* a FetchRange or a Write has been issued in this run
SomeCallIssued ==
    \/ lastOp # NoOp
    \/ pairFetches # <<>> \/ pairWrites # <<>>
    \/ fetchedFirst # {}
    \/ callAttempts > 0

\* C13: every input-validation failure of ProcessMetrics (a step string
\* that does not parse, or start after end) is returned as an error before
\* any FetchRange call and any sink Write is issued.
C13_ValidationBeforeAnyCall ==
    (ParseDuration(stepStr).err # NoErr \/ start > end) =>
        /\ ~SomeCallIssued
        /\ pc \in {"ProcessMetrics", "returned", "exited"}
        /\ pc # "ProcessMetrics" => retErr # NoErr

C13_Witness ==
    /\ pc = "returned" /\ start > end
    /\ ParseDuration(stepStr).err = NoErr
    /\ retErr = "start time must be before end time"

\* C14: ProcessMetrics returns an aggregate outcome that tells full success
\* from partial failure: when at least one pair ended with a terminal error
\* the returned outcome is not that of a run in which every pair succeeded.
C14_OutcomeReportsFailedPairs ==
    (pc = "returned" /\ failedCount > 0) => retErr # NoErr

\* C15: in every run in which the sink was constructed, sink Close is called
\* exactly once, after the last Write, whether ProcessMetrics returned
\* success, pairs failed, or ProcessMetrics returned a validation error.
C15_CloseExactlyOnce ==
    /\ closeCalls <= 1
    /\ closeCalls = 1 => pc = "exited"
    /\ pc = "exited" => closeCalls = 1

\* the pair was given up because sink.Write returned an error
PairWriteFailed == pairErr # NilErr /\ pairErr[1] = "failed to write batch to sink"

\* C16: a sink Write error in the middle of a run is pair-fatal only: the
\* rest of the pair's sub-windows is skipped (no further fetch or write for
\* the pair, which is left for a strictly later one) and ProcessMetrics goes
\* on with the next pair and does not abort.
C16_WriteErrorIsPairFatal ==
    [][ /\ writeErr' # NoErr =>
               /\ pc' = "pairReturn" /\ PairWriteFailed'
               /\ mi' = mi /\ si' = si
               /\ ~IssuesFetch
        /\ (pc = "pairReturn" /\ PairWriteFailed) =>
               /\ writeErr # NoErr
               /\ pc' = "pairLoop"
               /\ mi' = (IF si < NumSources THEN mi ELSE mi + 1)
               /\ si' = (IF si < NumSources THEN si + 1 ELSE 1)
               /\ retErr' = NoErr
               /\ ~IssuesFetch /\ ~IssuesWrite
        /\ <<mi', si'>> # <<mi, si>> => PairLess(mi, si, mi', si')
        /\ (pc' = "returned" /\ pc # "returned" /\ ProperRun) => retErr' = NoErr
      ]_vars

C16_Witness ==
    /\ pc = "pairReturn" /\ PairWriteFailed /\ writeErr # NoErr
    /\ Len(pairFetches) = 1 /\ Len(pairWrites) = 1
    /\ end - start > 3600
    /\ <<mi, si>> = <<1, 1>>

\* C17: an error returned by sink Close at the end of the run is reported as
\* a run-fatal failure: a run whose Close fails does not end with the outcome
\* of a run whose Close succeeds.
C17_CloseErrorIsRunFatal ==
    (pc = "exited" /\ closeErr # NoErr) => exitStatus # 0

\* number of samples of the series before series i of a matrix
RECURSIVE Offset(_, _)
Offset(matrix, i) ==
    IF i = 1 THEN 0 ELSE Offset(matrix, i - 1) + Len(matrix[i - 1].Values)

\* the label set of the series that record k of nOut was made from
SourceMetric(k) ==
    IF nResult.type = "vector" THEN nResult.vector[k].Metric
    ELSE LET m == nResult.matrix
             i == CHOOSE x \in 1..Len(m) :
                      Offset(m, x) < k /\ k <= Offset(m, x) + Len(m[x].Values)
         IN  m[i].Metric

Normalized == pc = "normalized" /\ nOut.err = NoErr

\* C18: the label mapping of every record produced by processBatchResult is
\* exactly the configured keys that are present on the record's series, with
\* the series' values: no key outside the configured list, no key the series
\* lacks, no configured key of the series left out.
C18_LabelsAreConfiguredAndPresent ==
    Normalized =>
        \A k \in 1..Len(nOut.data) :
            LET labels == nOut.data[k].Labels
                metric == SourceMetric(k)
                configured == {nKeys[i] : i \in 1..Len(nKeys)}
            IN  /\ \A key \in DOMAIN labels :
                      key \in configured /\ key \in DOMAIN metric
                /\ \A key \in configured :
                      key \in DOMAIN metric => key \in DOMAIN labels
                /\ \A key \in DOMAIN labels : labels[key] = metric[key]

C18_Witness ==
    /\ Normalized /\ nKeys = <<"job", "zone">>
    /\ Len(nOut.data) = 2
    /\ DOMAIN nOut.data[1].Labels = {"job"}
    /\ DOMAIN nOut.data[2].Labels = {}

\* the record made from a sample is r
RecordOf(r, ts, val) ==
    /\ r.PrometheusInstance = nPair[1]
    /\ r.MetricName = nPair[2]
    /\ r.Value = val
    /\ r.Timestamp * 1000 <= ts /\ ts < (r.Timestamp + 1) * 1000

\* C19: for a matrix processBatchResult emits exactly one record per
\* (series, sample) in series order then sample order, for a vector exactly
\* one record per series in order; each record carries the source name, the
\* metric name, the sample's value and the sample's own timestamp truncated
\* to whole seconds.
C19_OneRecordPerSample ==
    /\ (pc = "normalized" /\ nResult.type = "matrix") =>
          LET m == nResult.matrix IN
          /\ nOut.err = NoErr
          /\ Len(nOut.data) = Offset(m, Len(m) + 1)
          /\ \A i \in 1..Len(m) : \A j \in 1..Len(m[i].Values) :
                RecordOf(nOut.data[Offset(m, i) + j],
                         m[i].Values[j].Timestamp, m[i].Values[j].Value)
    /\ (pc = "normalized" /\ nResult.type = "vector") =>
          LET v == nResult.vector IN
          /\ nOut.err = NoErr
          /\ Len(nOut.data) = Len(v)
          /\ \A i \in 1..Len(v) :
                RecordOf(nOut.data[i], v[i].Timestamp, v[i].Value)

C19_Witness ==
    /\ pc = "normalized" /\ nResult.type = "matrix"
    /\ Len(nResult.matrix) = 2
    /\ Len(nResult.matrix[1].Values) = 2 /\ Len(nResult.matrix[2].Values) = 1
    /\ Len(nOut.data) = 3
    /\ nOut.data[2].Timestamp = 2 /\ nOut.data[3].Timestamp = 1

\* the pair was given up because of the shape of a fetched result
PairShapeFailed ==
    pairErr # NilErr /\ pairErr[1] = "failed to process batch results"

\* C20: a fetched result that is neither a vector nor a matrix makes
\* processBatchResult return an "unsupported result type" error, and the
\* error is pair-fatal at once: the sub-window is not fetched again, nothing
\* is written for it, and the rest of the pair's sub-windows is skipped.
C20_UnsupportedShapeIsPairFatal ==
    [][ /\ (pc = "fetched" /\ fetchErr = NilErr
            /\ result.type \notin {"vector", "matrix"}) =>
               /\ pc' = "pairReturn"
               /\ pairErr' = <<"failed to process batch results", batchNumber,
                               "unsupported result type">>
               /\ pairFetches' = pairFetches /\ pairWrites' = pairWrites
               /\ callAttempts' = callAttempts
               /\ mi' = mi /\ si' = si
        /\ (pc = "pairReturn" /\ PairShapeFailed) =>
               /\ result.type \notin {"vector", "matrix"}
               /\ \A i \in 1..Len(pairWrites) : pairWrites[i].start # currentStart
               /\ \A i \in 1..Len(pairFetches) :
                     pairFetches[i].start = currentStart => i = Len(pairFetches)
               /\ pc' = "pairLoop"
               /\ PairLess(mi, si, mi', si')
               /\ ~IssuesFetch /\ ~IssuesWrite
        /\ <<mi', si'>> # <<mi, si>> => PairLess(mi, si, mi', si')
      ]_vars

C20_Witness ==
    /\ pc = "pairReturn" /\ PairShapeFailed
    /\ Len(pairFetches) = 2 /\ Len(pairWrites) = 1
    /\ end - start > 7200

\* number of samples a raw result carries
SampleCount(res) ==
    IF res.type = "vector" THEN Len(res.vector)
    ELSE IF res.type = "matrix" THEN Offset(res.matrix, Len(res.matrix) + 1)
    ELSE 0

\* FetchRange returned a vector or a matrix without any sample
EmptyFetch ==
    /\ pc = "fetched" /\ fetchErr = NilErr
    /\ result.type \in {"vector", "matrix"}
    /\ SampleCount(result) = 0

\* C22: a sub-window whose fetch succeeds with zero samples is not an error:
\* no sink Write is issued for it, the pair is not given up, and the pair
\* moves on to the sub-window that starts where this one ended, which is
\* fetched next when it starts before the global end.
C22_EmptySubWindowIsSkipped ==
    [][ /\ EmptyFetch =>
               /\ pc' = "batchLoop"
               /\ pairErr' = NilErr
               /\ ~IssuesWrite /\ ~IssuesFetch
               /\ currentStart' = currentEnd
               /\ batchNumber' = batchNumber + 1
               /\ mi' = mi /\ si' = si
        /\ (pc = "batchLoop" /\ currentStart < end) =>
               /\ IssuesFetch
               /\ pairFetches'[Len(pairFetches')].start = currentStart
               /\ mi' = mi /\ si' = si
        /\ IssuesWrite => processedData # <<>>
      ]_vars

C22_Witness ==
    /\ pc = "attempt" /\ Len(pairFetches) = 2
    /\ Len(pairBatches) = 1 /\ pairBatches[1].data = <<>>
    /\ pairWrites = <<>>
    /\ pairFetches[2].start = pairFetches[1].end

\* what a sink holds and what it has put outside
SinkState ==
    << created, files, writers, batchData, inserts, accessToken, tokenExpiry,
       tokenRequests, csvContent, uploads, messages >>

\* the step is a Write call with the records data
WriteCallWith(data) ==
    /\ writeCalls' = writeCalls + 1
    /\ lastCall'.op = "Write" /\ lastCall'.data = data

\* C23: for each of the three sinks a Write with an empty record sequence
\* returns success and leaves the sink as it was: no file is created, no
\* row is buffered or inserted, no token is requested and no upload or
\* message is sent.
C23_EmptyWriteIsNoOp ==
    [][ WriteCallWith(<<>>) =>
           /\ sinkRet' = NoErr
           /\ SinkState' = SinkState
           /\ pc' = pc
      ]_vars

C23_Witness ==
    /\ sinkType = "feishu" /\ writeCalls = 2
    /\ lastCall.op = "Write" /\ lastCall.data = <<>>
    /\ Len(uploads) = 1 /\ tokenRequests = 1
    /\ ~TokenValid(accessToken, tokenExpiry, now)
    /\ sinkRet = NoErr

\* the texts an error value fmt.Errorf(format, count, cause) carries
ErrorTexts(e) == {e[1], e[3]}

\* C24: the terminal error FetchRange returns after the 5th failed attempt
\* identifies the source (the client's name) and the underlying cause of
\* the last failure.
C24_TerminalErrorNamesSourceAndCause ==
    (pc = "fetched" /\ callFails = 5) =>
        /\ fetchErr # NilErr
        /\ err \in ErrorTexts(fetchErr)
        /\ ClientName(si) \in ErrorTexts(fetchErr)

\* the step is a QueryRange attempt that returned no error
AttemptWithoutError == callAttempts' = callAttempts + 1 /\ err' = NoErr

\* C25: warnings never cause a failure or a retry: an attempt that returns
\* a result with any number of warnings and no error makes FetchRange return
\* that result at once, with no error, no sleep and no further attempt.
C25_WarningsNeverRetry ==
    [][ /\ AttemptWithoutError =>
               /\ pc' = "fetched"
               /\ fetchErr' = NilErr
               /\ result' = apiResult' /\ result' # Nil
               /\ callFails' = callFails
               /\ callSleeps' = callSleeps
               /\ attempt' = attempt
        /\ pc = "fetched" =>
               callAttempts' <= callAttempts /\ callSleeps' = callSleeps
      ]_vars

C25_Witness ==
    /\ pc = "fetched" /\ fetchErr = NilErr
    /\ apiWarnings >= 2
    /\ callAttempts = 3 /\ Len(callSleeps) = 2
    /\ result = apiResult /\ result.type = "matrix"

\* C26: command-line overrides take effect: when -start is not empty the
\* window start handed to ProcessMetrics is the flag's instant, when -end is
\* not empty the window end is the flag's instant, and the configuration
\* file's text is used only for an empty flag.
C26_FlagsOverrideConfig ==
    pc = "ProcessMetrics" =>
        /\ flagStart # "" => /\ ParseRFC3339(flagStart).err = NoErr
                             /\ start = ParseRFC3339(flagStart).t
        /\ flagStart = "" => start = ParseRFC3339(cfgStart).t
        /\ flagEnd # "" => /\ ParseRFC3339(flagEnd).err = NoErr
                           /\ end = ParseRFC3339(flagEnd).t
        /\ flagEnd = "" => end = ParseRFC3339(cfgEnd).t

\* C27: credential injection does not change the request the round tripper
\* is given: after RoundTrip the header of the caller's request is what it
\* was before the call, and the request sent carries the Basic credentials
\* if and only if both a username and a password are configured.
C27_RoundTripLeavesRequest ==
    rtCalls > 0 =>
        /\ reqHeader = reqBefore
        /\ (username # "" /\ password # "") =>
               sentHeader = SetBasicAuth(reqBefore, username, password)
        /\ ~(username # "" /\ password # "") => sentHeader = reqBefore

\* the file sink has just written the records of lastCall to their file
CSVWritten ==
    /\ sinkType = "csv"
    /\ lastCall.op = "Write" /\ lastCall.data # <<>>
    /\ sinkRet = NoErr

\* C28: in the file sink the header written on a metric's first write lists,
\* after the four fixed columns, one column per label key of the first
\* record in lexicographic key order, so that header column i and data-row
\* column i refer to the same label key for every row whose label keys are
\* those of the first record.
C28_HeaderMatchesRows ==
    /\ \A i \in 1..Len(created) :
          LET f == created[i]
              keys == getSortedLabelKeys(f.sample.Labels)
          IN  /\ Len(f.header) = 4 + Len(keys)
              /\ SubSeq(f.header, 1, 4) = BaseColumns
              /\ \A j \in 1..Len(keys) : f.header[4 + j] = LabelColumn(keys[j])
    /\ CSVWritten =>
          LET f == created[writers[lastCall.metricName]]
              n == Len(lastCall.data)
          IN  \A k \in 1..n :
                 LET r == lastCall.data[k]
                     row == f.lines[Len(f.lines) - n + k]
                 IN  DOMAIN r.Labels = DOMAIN f.sample.Labels =>
                        \A key \in DOMAIN r.Labels :
                           \E j \in 5..Len(row) :
                              /\ f.header[j] = LabelColumn(key)
                              /\ row[j] = r.Labels[key]

\* the files of the file sink that belong to the metric m
FilesOf(m) == {i \in 1..Len(created) : created[i].metric = m}

IsPrefix(p, q) == Len(p) <= Len(q) /\ SubSeq(q, 1, Len(p)) = p

C30_BufferWithinBatchSize ==
    [][ sinkType = "mysql" =>
        /\ batchSize' = (IF cfgBatchSize <= 0 THEN 1000 ELSE cfgBatchSize)
        /\ Len(batchData') <= batchSize'
        /\ \A i \in 1..Len(inserts') : Len(inserts'[i]) \in 1..batchSize'
        /\ WriteCallWith(lastCall'.data) =>
              /\ \A i \in (Len(inserts) + 1)..Len(inserts') :
                    Len(inserts'[i]) = batchSize
              /\ Len(batchData) + Len(lastCall'.data) > batchSize =>
                    \/ Len(inserts') > Len(inserts)
                    \/ sinkRet' # NoErr /\ Len(batchData') = batchSize
      ]_vars

C30_Witness ==
    /\ sinkType = "mysql" /\ cfgBatchSize = 2 /\ batchSize = 2
    /\ writeCalls = 2 /\ nextRec = 5
    /\ Len(inserts) = 1 /\ Len(inserts[1]) = 2
    /\ Len(batchData) = 2
    /\ sinkRet = NoErr

\* the step is a Write call on the chat-message sink
FeishuWriteStep == sinkType = "feishu" /\ writeCalls' = writeCalls + 1

\* the time ensureAccessToken read in the Write of this step: that of the
\* upload if the step sent one, else the time the call ended
CheckedAt ==
    IF Len(uploads') > Len(uploads) THEN uploads'[Len(uploads')].at ELSE now'

\* the step asked the token endpoint
TokenRequested == tokenRequests' = tokenRequests + 1

\* the sink holds no token, or the time t is not before the cached expiry
NoGoodToken(t) == accessToken = "" \/ ~(t < tokenExpiry)

\* the uploads and messages of this step that carried the token cached
\* before the step
SentWithCached ==
    { uploads'[i] : i \in { j \in (Len(uploads) + 1)..Len(uploads') :
                               uploads'[j].token = accessToken } }
    \cup
    { messages'[i] : i \in { j \in (Len(messages) + 1)..Len(messages') :
                                messages'[j].token = accessToken } }

\* C31 as stated: a Write requests a new token if and only if the sink has
\* no cached token or the current time is not before the cached expiry, the
\* cached expiry being acquisition + (expire_in - 60); and no upload or
\* message is sent with a cached token that is within 60 seconds of its
\* actual expiry.
C31_TokenRequestedIffStale ==
    [][ FeishuWriteStep =>
           /\ TokenRequested <=> NoGoodToken(CheckedAt)
           /\ accessToken' # accessToken => tokenExpiry' = tokenDies' - 60
           /\ \A sent \in SentWithCached : tokenDies - sent.at > 60
      ]_vars

\* C31, amended: a Write with at least one record requests a new token if
\* and only if the sink has no cached token or the time read by the check
\* is not before the cached expiry, and a Write without records never
\* requests one; the cached expiry is acquisition + (expire_in - 60); a
\* cached token that is reused has more than 60 seconds left until
\* acquisition + expire_in at the time of the check.
C31_TokenRequestedIffStaleOnRecords ==
    [][ FeishuWriteStep =>
           /\ TokenRequested <=>
                 (lastCall'.data # <<>> /\ NoGoodToken(CheckedAt))
           /\ accessToken' # accessToken =>
                 /\ tokenExpiry' = tokenDies' - 60
                 /\ tokenDies' - CheckedAt \in ExpireIns
           /\ accessToken' = accessToken =>
                 tokenExpiry' = tokenExpiry /\ tokenDies' = tokenDies
           /\ SentWithCached # {} => tokenDies - CheckedAt > 60
      ]_vars

\* a second Write reused the token of the first, and its message left
\* while the token had less than 60 seconds to live
C31_Witness ==
    /\ sinkType = "feishu" /\ writeCalls = 2 /\ tokenRequests = 1
    /\ Len(messages) = 2
    /\ messages[2].token = messages[1].token
    /\ tokenDies - messages[2].at < 60

\* the rows of the INSERT statements ins, in the order they were inserted
RECURSIVE Inserted(_)
Inserted(ins) ==
    IF ins = <<>> THEN <<>> ELSE Head(ins) \o Inserted(Tail(ins))

\* no row occurs twice in the sequence rows
NoRowTwice(rows) ==
    \A i, j \in 1..Len(rows) : i # j => rows[i] # rows[j]

\* C32: in the table sink, after Write calls in which every flush succeeded
\* and a Close that returned nil, the rows inserted are the rows passed to
\* Write, each once and in the order written, and the buffer is empty.
C32_EveryRowInsertedOnce ==
    (sinkType = "mysql" /\ pc = "closed" /\ sinkRet = NoErr /\ ~flushFailed)
       => /\ Inserted(inserts) = passed
          /\ NoRowTwice(Inserted(inserts))
          /\ batchData = <<>>

\* two Write calls of two rows each and a Close, flushed in several
\* statements
C32_Witness ==
    /\ sinkType = "mysql" /\ pc = "closed" /\ sinkRet = NoErr
    /\ ~flushFailed
    /\ writeCalls = 2 /\ Len(passed) = 4 /\ Len(inserts) >= 2

\* the rows the table sink holds or has inserted, oldest first
RowsKept == Inserted(inserts) \o batchData

\* the rows of the records passed to the Write call of this step
RowsOfCall == SubSeq(passed', Len(passed) + 1, Len(passed'))

\* the step is a Write call on the table sink that returned an error
FailedWriteStep ==
    /\ sinkType = "mysql" /\ writeCalls' = writeCalls + 1
    /\ sinkRet' # NoErr

\* the step is a Close call on the table sink whose flush failed
FailedCloseStep ==
    /\ sinkType = "mysql" /\ pc = "sink" /\ pc' = "closed"
    /\ flushFailed' /\ Len(inserts') = Len(inserts) /\ batchData # <<>>

\* C33: in the table sink a failed flush leaves the buffer as it was: the
\* rows buffered stay buffered until a later flush inserts them, no row is
\* ever inserted twice, and the Write in which the flush failed returns an
\* error without buffering the row it was about to add.
C33_FailedFlushKeepsBuffer ==
    [][ sinkType = "mysql" =>
           /\ IsPrefix(RowsKept, RowsKept')
           /\ NoRowTwice(RowsKept')
           /\ FailedWriteStep =>
                 LET j == Len(RowsKept') - Len(RowsKept) IN
                 /\ j < Len(RowsOfCall)
                 /\ RowsKept' = RowsKept \o SubSeq(RowsOfCall, 1, j)
                 /\ Len(batchData') = batchSize
                 /\ \A i \in 1..Len(RowsKept') :
                       RowsKept'[i] # RowsOfCall[j + 1]
                 /\ pc' = pc
           /\ FailedCloseStep =>
                 /\ batchData' = batchData /\ inserts' = inserts
                 /\ sinkRet' # NoErr
      ]_vars

\* a flush failed in a Write, the rows stayed in the buffer, and the later
\* flushes inserted them
C33_Witness ==
    /\ sinkType = "mysql" /\ pc = "closed" /\ sinkRet = NoErr
    /\ flushFailed
    /\ batchData = <<>> /\ Len(inserts) >= 2
    /\ Len(Inserted(inserts)) < Len(passed)
    /\ IsPrefix(Inserted(inserts), passed)

\* the whole hours a span of d seconds touches: ceil(d / 1h)
HoursCeil(d) == (d + Hour - 1) \div Hour

\* the most QueryRange calls the current pair can have made so far: 5 for
\* each FetchRange call that returned, and those of the call under way
PairAttemptsAtMost ==
    IF pairFetches = <<>> THEN 0
    ELSE 5 * (Len(pairFetches) - 1) + callAttempts

\* C34: ProcessMetrics always terminates: on a window with start < end and
\* under any pattern of fetch, normalization and sink failures the run
\* eventually returns, and every (metric, source) pair makes at most
\* 5 * ceil((end - start) / 1h) query attempts: 5 per FetchRange call, one
\* FetchRange call per sub-window, each sub-window starting after the one
\* before.
C34_ProcessMetricsTerminates ==
    /\ <>(pc = "returned")
    /\ [](/\ callAttempts <= 5
          /\ Len(pairFetches) <= HoursCeil(end - start)
          /\ PairAttemptsAtMost <= 5 * HoursCeil(end - start)
          /\ \A i \in 2..Len(pairFetches) :
                pairFetches[i].start > pairFetches[i - 1].start)

\* the last pair of a run over two and a half hours is at the fifth attempt
\* of its third sub-window
C34_Witness ==
    /\ pc = "fetched" /\ mi = NumMetrics /\ si = NumSources
    /\ end - start = 5 * Grain
    /\ Len(pairFetches) = 3 /\ callAttempts = 5
    /\ PairAttemptsAtMost = 5 * HoursCeil(end - start)
====
